---- MODULE Spec2Model ----
(***************************************************************************)
(* A model of xmlinfoset's token-driven infoset construction               *)
(* (src/src/parse.rs) over the entity store of src/src/lib.rs.             *)
(*                                                                         *)
(* The tokenizer (xmlparser) is the environment: each call of              *)
(* Peekable::peek / Peekable::next that has to ask the underlying          *)
(* tokenizer draws the next item from Items or the end of the stream.      *)
(* `stream` records the items the tokenizer has yielded so far, `eof`      *)
(* that it has reported the end, `peeked` is Peekable's one-item buffer.   *)
(***************************************************************************)
EXTENDS Integers, Sequences, FiniteSets, TLC

VARIABLES pc, result,
          stream, eof, peeked,
          info_set_data, doc_info_item,
          state, xml_version, xml_encoding, xml_standalone, root_element,
          parse_stack, root, parse_state,
          element_prefix, element_local,
          default_namespace_attribute, namespace_attributes, non_namespace_attrs

tokvars  == <<stream, eof, peeked>>
docvars  == <<state, xml_version, xml_encoding, xml_standalone, root_element>>
elemvars == <<parse_stack, root, parse_state>>
attrvars == <<element_prefix, element_local,
              default_namespace_attribute, namespace_attributes, non_namespace_attrs>>
vars == <<pc, result, stream, eof, peeked, info_set_data, doc_info_item,
          state, xml_version, xml_encoding, xml_standalone, root_element,
          parse_stack, root, parse_state, element_prefix, element_local,
          default_namespace_attribute, namespace_attributes, non_namespace_attrs>>

(* The longest token stream the tokenizer yields before it reports the end. *)
MaxTokens == 5

(***************************************************************************)
(* Option<T>                                                               *)
(***************************************************************************)
None == [some |-> FALSE]
Some(x) == [some |-> TRUE, v |-> x]

(* A local that is not in scope (its function has not been entered);
   Unset for the locals that hold a state name. *)
NoLocal == [unset |-> TRUE]
Unset == "unset"

(***************************************************************************)
(* xmlparser::StrSpan: a slice of the input together with its start        *)
(* offset.  `==` on two StrSpans is the derived, field-wise equality, so   *)
(* ElemLocals below holds the same name at two offsets as well as two      *)
(* different names.                                                        *)
(***************************************************************************)
StrSpan(t, s) == [text |-> t, start |-> s]

(* The text given to parse, which the returned InfoSet retains.  Every     *)
(* StrSpan of a token is a slice of it; which tokens the tokenizer makes   *)
(* of it, and in which order, stays the choice of the environment.  The    *)
(* text is ASCII, so every byte offset is a character boundary.            *)
input == "<?xml version='1.0' 1.1 2.0 encoding='UTF-8' latin1?><p:a xmlns='urn:x' xmlns:p='urn:y' x=''><a><b><!--c--><?t d?>"

(* the StrSpan of input[s..e] *)
Slice(s, e) == StrSpan(SubSeq(input, s + 1, e), s)
as_str(v) == v.text
is_empty(v) == Len(v.text) = 0
range(v) == [start |-> v.start, end |-> v.start + Len(v.text)]

(* a span that takes in the byte after the slice *)
Span_from_one_past(v) == [start |-> v.start, end |-> v.start + Len(v.text) + 1]

(* Span(v.range()) *)
Span_from_xml_strspan(v) == range(v)

(* Span::get: str::get of the range in the input the InfoSet retains *)
SpanError == [variant |-> "SpanError"]
Span_get(span, infoset) ==
    IF span.start <= span.end /\ span.end <= Len(infoset.input)
    THEN [ok |-> TRUE, str |-> SubSeq(infoset.input, span.start + 1, span.end)]
    ELSE [ok |-> FALSE, error |-> SpanError]

range_is_empty(r) == ~(r.start < r.end)

(* the conversion without the emptiness test *)
OptionSpan_always_some(v) == Some(range(v))

(* Option<Span>: an empty range becomes None *)
OptionSpan_from_xml_strspan(v) ==
    IF range_is_empty(range(v)) THEN None ELSE Some(range(v))

(***************************************************************************)
(* The items the tokenizer can yield: Ok(Token) for each of xmlparser's    *)
(* twelve token kinds, or Err(e).                                          *)
(***************************************************************************)
EmptyPrefix == Slice(94, 94)
ElemPrefixes == {EmptyPrefix, Slice(54, 55)}            \* "", "p"
ElemLocals == {Slice(56, 57), Slice(94, 95), Slice(97, 98)}   \* "a", "a", "b"

DeclarationTokens ==
    { [type |-> "Declaration", version |-> Slice(15, 18),          \* "1.0"
       encoding |-> None, standalone |-> None],
      [type |-> "Declaration", version |-> Slice(20, 23),          \* "1.1"
       encoding |-> Some(Slice(38, 43)), standalone |-> Some(TRUE)],     \* "UTF-8"
      [type |-> "Declaration", version |-> Slice(24, 27),          \* "2.0"
       encoding |-> Some(Slice(45, 51)), standalone |-> Some(FALSE)] }   \* "latin1"

DtdTokens == { [type |-> "DtdStart"], [type |-> "EmptyDtd"] }

ElementStartTokens ==
    { [type |-> "ElementStart", prefix |-> p, local |-> l] :
        p \in ElemPrefixes, l \in ElemLocals }

AttributeTokens ==
    { [type |-> "Attribute", prefix |-> EmptyPrefix, local |-> Slice(58, 63),
       value |-> Slice(65, 70)],                          \* xmlns='urn:x'
      [type |-> "Attribute", prefix |-> Slice(72, 77), local |-> Slice(78, 79),
       value |-> Slice(81, 86)],                          \* xmlns:p='urn:y'
      [type |-> "Attribute", prefix |-> EmptyPrefix, local |-> Slice(88, 89),
       value |-> Slice(91, 91)] }                         \* x=''

ElementEndTokens ==
    { [type |-> "ElementEnd", end |-> "Open"], [type |-> "ElementEnd", end |-> "Empty"] }
    \cup { [type |-> "ElementEnd", end |-> "Close", prefix |-> p, local |-> l] :
             p \in ElemPrefixes, l \in ElemLocals }

CommentTokens == { [type |-> "Comment", text |-> Slice(103, 104)] }     \* "c"

(* the tokenizer reports a PI without content as None, never as an empty slice *)
PITokens ==
    { [type |-> "ProcessingInstruction", target |-> Slice(109, 110), content |-> c] :
        c \in {None, Some(Slice(111, 112))} }            \* "t", "d"

OtherTokens ==
    { [type |-> "Text"], [type |-> "Cdata"],
      [type |-> "EntityDeclaration"], [type |-> "DtdEnd"] }

Tokens == DeclarationTokens \cup DtdTokens \cup ElementStartTokens
          \cup AttributeTokens \cup ElementEndTokens \cup CommentTokens
          \cup PITokens \cup OtherTokens

(* xmlparser::Error values *)
TokenErrors == {"InvalidElement", "UnknownToken"}

OkItem(t) == [ok |-> TRUE, token |-> t]
ErrItem(e) == [ok |-> FALSE, error |-> e]
Items == { OkItem(t) : t \in Tokens } \cup { ErrItem(e) : e \in TokenErrors }

(***************************************************************************)
(* Peekable<Tokenizer>.  Fetched is what one call of the underlying        *)
(* iterator can return: None once the stream ended, else any item or None. *)
(***************************************************************************)
Fetched ==
    IF eof \/ Len(stream) >= MaxTokens
    THEN {None}
    ELSE {None} \cup { Some(i) : i \in Items }

(* what peek() / next() return: the buffered item if there is one *)
Upcoming == IF peeked.some THEN {peeked.v} ELSE Fetched

Record(it) ==
    /\ stream' = IF ~peeked.some /\ it.some THEN Append(stream, it.v) ELSE stream
    /\ eof' = (eof \/ (~peeked.some /\ ~it.some))

(* tokens.peek() returning `it`: the item stays buffered *)
peek(it) ==
    /\ it \in Upcoming
    /\ Record(it)
    /\ peeked' = Some(it)

(* tokens.next() returning `it`: the buffer is emptied *)
next(it) ==
    /\ it \in Upcoming
    /\ Record(it)
    /\ peeked' = None

IsToken(it, ty) == it.some /\ it.v.ok /\ it.v.token.type = ty

(***************************************************************************)
(* The entity store InfoSetData: one table per member kind; a handle is    *)
(* the kind and the index of the slot.                                     *)
(***************************************************************************)
Kinds == {"DocInfoItem", "ElementInfoItem", "CharGroupInfoItem", "AttributeInfoItem",
          "PIInfoItem", "CommentInfoItem", "NSInfoItem", "UEInfoItem", "UERInfoItem",
          "NotationInfoItem", "DTDInfoItem"}

InfoSetData_default == [doc_info_item |-> None, tables |-> [k \in Kinds |-> <<>>]]

Handle(k, i) == [kind |-> k, index |-> i]

(* the handle the next insertion into table k returns, and the store after it *)
NewHandle(repo, k) == Handle(k, Len(repo.tables[k]) + 1)
Insert(repo, k, value) == [repo EXCEPT !.tables[k] = Append(@, value)]

Get(repo, h) == repo.tables[h.kind][h.index]

NotYetParsed == [tag |-> "NotYetParsed"]

DocInfoItem_new_not_yet_parsed(repo) == Insert(repo, "DocInfoItem", NotYetParsed)

(* the transition leaving base_uri for a later call *)
transition_without_base_uri(h, version, character_encoding_scheme, standalone, document_element, children, notations, unparsed_entities, base_uri, all_declarations_processed, repo) ==
    [repo EXCEPT !.tables[h.kind][h.index] =
        [tag |-> "Parsed",
         version |-> version,
         character_encoding_scheme |-> character_encoding_scheme,
         standalone |-> standalone,
         document_element |-> document_element,
         children |-> children,
         notations |-> notations,
         unparsed_entities |-> unparsed_entities,
         all_declarations_processed |-> all_declarations_processed]]

(* the placeholder is replaced by the Parsed variant, all nine fields at once *)
transition_to_parsed_from_not_yet_parsed(h, version, character_encoding_scheme, standalone, document_element, children, notations, unparsed_entities, base_uri, all_declarations_processed, repo) ==
    [repo EXCEPT !.tables[h.kind][h.index] =
        [tag |-> "Parsed",
         version |-> version,
         character_encoding_scheme |-> character_encoding_scheme,
         standalone |-> standalone,
         document_element |-> document_element,
         children |-> children,
         notations |-> notations,
         unparsed_entities |-> unparsed_entities,
         base_uri |-> base_uri,
         all_declarations_processed |-> all_declarations_processed]]

ElementInfoItem_new(namespace_name, local_name, prefix, children, attributes, ns_attributes, in_scope_namespaces, base_uri, parent, repo) ==
    Insert(repo, "ElementInfoItem",
        [namespace_name |-> namespace_name,
         local_name |-> local_name,
         prefix |-> prefix,
         children |-> children,
         attributes |-> attributes,
         namespace_attributes |-> ns_attributes,
         in_scope_namespaces |-> in_scope_namespaces,
         base_uri |-> base_uri,
         parent |-> parent])

CommentInfoItem_new(content, parent, repo) ==
    Insert(repo, "CommentInfoItem", [content |-> content, parent |-> parent])

PIInfoItem_new(target, content, base_uri, notation, parent, repo) ==
    Insert(repo, "PIInfoItem",
        [target |-> target, content |-> content, base_uri |-> base_uri,
         notation |-> notation, parent |-> parent])

(* ElementParentInfoItem, CommentParentInfoItem, PIParentInfoItem variants *)
ParentDoc(h) == [variant |-> "Doc", item |-> h]
(* the parent variant mixed up: an element parent recorded as the Doc variant *)
ParentElement_as_Doc(h) == [variant |-> "Doc", item |-> h]
ParentElement(h) == [variant |-> "Element", item |-> h]

(* the mapping that takes "1.1" for the lowest supported version *)
parse_version_lowest_only(version) ==
    IF version = "1.0" \/ version = "1.1" THEN [tag |-> "Version1_0"]
    ELSE [tag |-> "Other", string |-> version]

parse_version(version) ==
    IF version = "1.0" THEN [tag |-> "Version1_0"]
    ELSE IF version = "1.1" THEN [tag |-> "Version1_1"]
    ELSE [tag |-> "Other", string |-> version]

parse_encoding_scheme(encoding_scheme) ==
    IF encoding_scheme = "UTF-8" THEN [tag |-> "Utf8"]
    ELSE [tag |-> "Other", string |-> encoding_scheme]

(***************************************************************************)
(* How parse ends.  A ParseError travels up through the `?` of             *)
(* parse_xml_doc's callers; parse_with_statistics owns the store as a      *)
(* local, so returning Err drops it with everything inserted so far.       *)
(* A todo!() panics: the run ends without a return value.                  *)
(***************************************************************************)
(* ParseError *)
TokenError(e) == [variant |-> "TokenError", source |-> e]
UnexpectedToken == [variant |-> "UnexpectedToken"]
UnexpectedEOF == [variant |-> "UnexpectedEOF"]
DuplicateNSAttribute == [variant |-> "DuplicateNSAttribute"]
DuplicateRootElement == [variant |-> "DuplicateRootElement"]

Pending == [kind |-> "Pending"]
Ok == [kind |-> "Ok"]
Err(e) == [kind |-> "Err", error |-> e]
Panic == [kind |-> "Panic"]

(* a store that outlives the failed build with everything inserted so far *)
drop_keeps_entities(repo) == repo

(* the value of a store that went out of scope: none of its entities remain *)
drop(repo) == InfoSetData_default

ReturnErr(e) ==
    /\ pc' = "returned"
    /\ result' = Err(e)
    /\ info_set_data' = drop(info_set_data)

todo ==
    /\ pc' = "panicked"
    /\ result' = Panic

(***************************************************************************)
(* parse_with_statistics, up to the call of parse_xml_doc, and             *)
(* parse_xml_doc's initialisation of its locals.                           *)
(***************************************************************************)
Init ==
    /\ pc = "parse_with_statistics"
    /\ result = Pending
    /\ stream = <<>>
    /\ eof = FALSE
    /\ peeked = None
    /\ info_set_data = InfoSetData_default
    /\ doc_info_item = NoLocal
    /\ state = Unset
    /\ xml_version = NoLocal
    /\ xml_encoding = NoLocal
    /\ xml_standalone = NoLocal
    /\ root_element = NoLocal
    /\ parse_stack = NoLocal
    /\ root = NoLocal
    /\ parse_state = Unset
    /\ element_prefix = NoLocal
    /\ element_local = NoLocal
    /\ default_namespace_attribute = NoLocal
    /\ namespace_attributes = NoLocal
    /\ non_namespace_attrs = NoLocal

parse_with_statistics ==
    /\ pc = "parse_with_statistics"
    /\ doc_info_item' = NewHandle(info_set_data, "DocInfoItem")
    /\ info_set_data' = DocInfoItem_new_not_yet_parsed(info_set_data)
    /\ state' = "Initial"
    /\ xml_version' = None
    /\ xml_encoding' = None
    /\ xml_standalone' = None
    /\ pc' = "xml_decl"
    /\ UNCHANGED <<result, tokvars, root_element, elemvars, attrvars>>

(***************************************************************************)
(* parse_xml_doc: the optional leading Declaration.                        *)
(***************************************************************************)
XmlDeclTokenError ==
    /\ pc = "xml_decl"
    /\ \E it \in Upcoming :
        /\ it.some /\ ~it.v.ok
        /\ peek(it)
        /\ ReturnErr(TokenError(it.v.error))
    /\ UNCHANGED <<doc_info_item, docvars, elemvars, attrvars>>

XmlDeclPresent ==
    /\ pc = "xml_decl"
    /\ \E it \in Upcoming :
        /\ IsToken(it, "Declaration")
        /\ next(it)
        /\ xml_version' = Some(parse_version(as_str(it.v.token.version)))
        /\ xml_encoding' =
              IF it.v.token.encoding.some
              THEN Some(parse_encoding_scheme(as_str(it.v.token.encoding.v)))
              ELSE None
        /\ xml_standalone' = it.v.token.standalone
    /\ state' = "AfterXmlDecl"
    /\ root_element' = None
    /\ pc' = "doc_loop"
    /\ UNCHANGED <<result, info_set_data, doc_info_item, elemvars, attrvars>>

XmlDeclAbsent ==
    /\ pc = "xml_decl"
    /\ \E it \in Upcoming :
        /\ IF it.some THEN it.v.ok /\ it.v.token.type # "Declaration" ELSE TRUE
        /\ peek(it)
    /\ state' = "AfterXmlDecl"
    /\ root_element' = None
    /\ pc' = "doc_loop"
    /\ UNCHANGED <<result, info_set_data, doc_info_item,
                   xml_version, xml_encoding, xml_standalone, elemvars, attrvars>>

(***************************************************************************)
(* parse_xml_doc: one iteration of `while let Some(..) = tokens.peek()`,   *)
(* one action per match arm, and the code after the loop.                  *)
(***************************************************************************)
DocTokenError ==
    /\ pc = "doc_loop"
    /\ \E it \in Upcoming :
        /\ it.some /\ ~it.v.ok
        /\ peek(it)
        /\ ReturnErr(TokenError(it.v.error))
    /\ UNCHANGED <<doc_info_item, docvars, elemvars, attrvars>>

(* parse_dtd is todo!(): it never returns, so `state = AfterDTD` is never run *)
parse_dtd == todo

DocDtd ==
    /\ pc = "doc_loop"
    /\ \E it \in Upcoming :
        /\ IsToken(it, "DtdStart") \/ IsToken(it, "EmptyDtd")
        /\ peek(it)
    /\ IF state # "AfterXmlDecl"
       THEN ReturnErr(UnexpectedToken)
       ELSE parse_dtd /\ UNCHANGED info_set_data
    /\ UNCHANGED <<doc_info_item, docvars, elemvars, attrvars>>

(* an element tree started on every ElementStart, whatever the state *)
DocElementStart_in_any_state ==
    /\ pc = "doc_loop"
    /\ \E it \in Upcoming :
        /\ IsToken(it, "ElementStart")
        /\ peek(it)
    /\ parse_stack' = <<>>
    /\ root' = None
    /\ parse_state' = "Initial"
    /\ pc' = "parse_elem_tree"
    /\ UNCHANGED <<result, info_set_data>>
    /\ UNCHANGED <<doc_info_item, docvars, attrvars>>

(* the ElementStart stays buffered: parse_element_tree reads it with next() *)
DocElementStart ==
    /\ pc = "doc_loop"
    /\ \E it \in Upcoming :
        /\ IsToken(it, "ElementStart")
        /\ peek(it)
    /\ IF ~(state \in {"AfterXmlDecl", "AfterDTD"})
       THEN /\ ReturnErr(UnexpectedToken)
            /\ UNCHANGED elemvars
       ELSE /\ parse_stack' = <<>>
            /\ root' = None
            /\ parse_state' = "Initial"
            /\ pc' = "parse_elem_tree"
            /\ UNCHANGED <<result, info_set_data>>
    /\ UNCHANGED <<doc_info_item, docvars, attrvars>>

(* miscellaneous content taken only in the prolog *)
DocMisc_only_before_root ==
    /\ pc = "doc_loop"
    /\ \E it \in Upcoming :
        /\ IsToken(it, "Comment") \/ IsToken(it, "ProcessingInstruction")
        /\ next(it)
    /\ IF state = "AfterRootElement"
       THEN ReturnErr(UnexpectedToken)
       ELSE UNCHANGED <<pc, result, info_set_data>>
    /\ UNCHANGED <<doc_info_item, docvars, elemvars, attrvars>>

(* miscellaneous content looked at with peek() and left in the buffer *)
DocMisc_left_buffered ==
    /\ pc = "doc_loop"
    /\ \E it \in Upcoming :
        /\ IsToken(it, "Comment") \/ IsToken(it, "ProcessingInstruction")
        /\ peek(it)
    /\ UNCHANGED <<pc, result, info_set_data, doc_info_item, docvars, elemvars, attrvars>>

DocMisc ==
    /\ pc = "doc_loop"
    /\ \E it \in Upcoming :
        /\ IsToken(it, "Comment") \/ IsToken(it, "ProcessingInstruction")
        /\ next(it)
    /\ UNCHANGED <<pc, result, info_set_data, doc_info_item, docvars, elemvars, attrvars>>

DocOther ==
    /\ pc = "doc_loop"
    /\ \E it \in Upcoming :
        /\ it.some /\ it.v.ok
        /\ ~(it.v.token.type \in {"DtdStart", "EmptyDtd", "ElementStart",
                                   "Comment", "ProcessingInstruction"})
        /\ peek(it)
    /\ ReturnErr(UnexpectedToken)
    /\ UNCHANGED <<doc_info_item, docvars, elemvars, attrvars>>

(* Option::unwrap_or *)
unwrap_or(o, d) == IF o.some THEN o.v ELSE d

(* the Document finalized but its handle not put into the returned store *)
DocEnd_handle_not_stored ==
    /\ pc = "doc_loop"
    /\ \E it \in Upcoming :
        /\ ~it.some
        /\ peek(it)
    /\ IF state # "AfterRootElement"
       THEN /\ ReturnErr(UnexpectedEOF)
            /\ UNCHANGED state
       ELSE /\ state' = "Done"
            /\ info_set_data' =
                 transition_to_parsed_from_not_yet_parsed(
                      doc_info_item,
                      unwrap_or(xml_version, [tag |-> "Version1_0"]),
                      xml_encoding,
                      xml_standalone,
                      root_element.v,
                      <<>>, None, <<>>, None, TRUE,
                      info_set_data)
            /\ result' = Ok
            /\ pc' = "returned"
    /\ UNCHANGED <<doc_info_item, xml_version, xml_encoding, xml_standalone,
                   root_element, elemvars, attrvars>>

(* peek() gave None: the loop is left.  On success parse_with_statistics
   stores the Document handle in the store and returns it in the InfoSet. *)
DocEnd ==
    /\ pc = "doc_loop"
    /\ \E it \in Upcoming :
        /\ ~it.some
        /\ peek(it)
    /\ IF state # "AfterRootElement"
       THEN /\ ReturnErr(UnexpectedEOF)
            /\ UNCHANGED state
       ELSE /\ state' = "Done"
            /\ info_set_data' =
                 [transition_to_parsed_from_not_yet_parsed(
                      doc_info_item,
                      unwrap_or(xml_version, [tag |-> "Version1_0"]),
                      xml_encoding,
                      xml_standalone,
                      root_element.v,
                      <<>>, None, <<>>, None, TRUE,
                      info_set_data)
                  EXCEPT !.doc_info_item = Some(doc_info_item)]
            /\ result' = Ok
            /\ pc' = "returned"
    /\ UNCHANGED <<doc_info_item, xml_version, xml_encoding, xml_standalone,
                   root_element, elemvars, attrvars>>

(* the InfoSet parse_with_statistics returns on Ok: the store together with
   the borrowed input *)
InfoSet == [input |-> input, data |-> info_set_data]

(***************************************************************************)
(* parse_element_tree: one iteration of 'parse_elem_tree, one action per   *)
(* match arm.                                                              *)
(***************************************************************************)
InElement == parse_state \in {"AfterDescent", "AfterAppend", "AfterUnwind"}

(* Vec::last *)
last(stack) == IF Len(stack) = 0 THEN None ELSE Some(stack[Len(stack)])

(* append_to_element_as_child takes parent.children_mut(repo) and then is
   todo!(): nothing is appended and it never returns *)
append_to_element_as_child(parent, v) == todo

(* the root is recorded but the document state is left where it was *)
ElementTreeDone_state_kept(element) ==
    /\ parse_state' = "Done"
    /\ root_element' = Some(element)
    /\ state' = state
    /\ pc' = "doc_loop"

(* parse_element_tree returns Ok(root) to parse_xml_doc, which records it *)
ElementTreeDone(element) ==
    /\ parse_state' = "Done"
    /\ root_element' = Some(element)
    /\ state' = "AfterRootElement"
    /\ pc' = "doc_loop"

(* the end of the stream inside an open element reported as a stray token *)
ElemEOF_as_UnexpectedToken ==
    /\ pc = "parse_elem_tree"
    /\ \E it \in Upcoming :
        /\ ~it.some
        /\ next(it)
    /\ ReturnErr(UnexpectedToken)
    /\ UNCHANGED <<doc_info_item, docvars, elemvars, attrvars>>

ElemEOF ==
    /\ pc = "parse_elem_tree"
    /\ \E it \in Upcoming :
        /\ ~it.some
        /\ next(it)
    /\ ReturnErr(UnexpectedEOF)
    /\ UNCHANGED <<doc_info_item, docvars, elemvars, attrvars>>

ElemTokenError ==
    /\ pc = "parse_elem_tree"
    /\ \E it \in Upcoming :
        /\ it.some /\ ~it.v.ok
        /\ next(it)
        /\ ReturnErr(TokenError(it.v.error))
    /\ UNCHANGED <<doc_info_item, docvars, elemvars, attrvars>>

ElemElementStart ==
    /\ pc = "parse_elem_tree"
    /\ \E it \in Upcoming :
        /\ IsToken(it, "ElementStart")
        /\ next(it)
        /\ element_prefix' = it.v.token.prefix
        /\ element_local' = it.v.token.local
    /\ non_namespace_attrs' = <<>>
    /\ namespace_attributes' = <<>>
    /\ default_namespace_attribute' = None
    /\ pc' = "parse_attr_list"
    /\ UNCHANGED <<result, info_set_data, doc_info_item, docvars, elemvars>>

ElemComment ==
    /\ pc = "parse_elem_tree"
    /\ \E it \in Upcoming :
        /\ IsToken(it, "Comment")
        /\ next(it)
        /\ IF ~InElement
           THEN ReturnErr(UnexpectedToken)
           ELSE LET parent == last(parse_stack).v.element_info_item
                    comment_info_item == NewHandle(info_set_data, "CommentInfoItem")
                IN  /\ info_set_data' =
                         CommentInfoItem_new(Span_from_xml_strspan(it.v.token.text),
                                             ParentElement(parent), info_set_data)
                    /\ append_to_element_as_child(parent, comment_info_item)
    /\ UNCHANGED <<doc_info_item, docvars, elemvars, attrvars>>

ElemPI ==
    /\ pc = "parse_elem_tree"
    /\ \E it \in Upcoming :
        /\ IsToken(it, "ProcessingInstruction")
        /\ next(it)
        /\ IF ~InElement
           THEN ReturnErr(UnexpectedToken)
           ELSE LET parent == last(parse_stack).v.element_info_item
                    pi_info_item == NewHandle(info_set_data, "PIInfoItem")
                    content == it.v.token.content
                IN  /\ info_set_data' =
                         PIInfoItem_new(Span_from_xml_strspan(it.v.token.target),
                                        IF content.some
                                        THEN Some(Span_from_xml_strspan(content.v))
                                        ELSE None,
                                        None, None,
                                        ParentElement(parent), info_set_data)
                    /\ append_to_element_as_child(parent, pi_info_item)
    /\ UNCHANGED <<doc_info_item, docvars, elemvars, attrvars>>

(* Vec::pop, then the guard of the match arm on the popped frame *)
Matches(entry, prefix, local_name) ==
    entry.prefix = prefix /\ entry.local_name = local_name

(* the closing tag of the root unwinds like any other: the loop goes on *)
ElemElementEnd_loop_kept ==
    /\ pc = "parse_elem_tree"
    /\ \E it \in Upcoming :
        /\ IsToken(it, "ElementEnd")
        /\ next(it)
        /\ LET end == it.v.token IN
           IF ~InElement \/ end.end # "Close" \/ Len(parse_stack) = 0
           THEN /\ ReturnErr(UnexpectedToken)
                /\ UNCHANGED <<docvars, elemvars>>
           ELSE LET entry == parse_stack[Len(parse_stack)]
                    popped == SubSeq(parse_stack, 1, Len(parse_stack) - 1)
                IN  /\ parse_stack' = popped
                    /\ root' = root
                    /\ IF ~Matches(entry, end.prefix, end.local)
                       THEN /\ ReturnErr(UnexpectedToken)
                            /\ UNCHANGED <<docvars, parse_state>>
                       ELSE /\ UNCHANGED <<result, info_set_data>>
                            /\ parse_state' = "AfterUnwind"
                            /\ UNCHANGED <<pc, docvars>>
    /\ UNCHANGED <<doc_info_item, attrvars>>

(* the top frame compared with the closing tag but left on the stack *)
ElemElementEnd_top_kept ==
    /\ pc = "parse_elem_tree"
    /\ \E it \in Upcoming :
        /\ IsToken(it, "ElementEnd")
        /\ next(it)
        /\ LET end == it.v.token IN
           IF ~InElement \/ end.end # "Close" \/ Len(parse_stack) = 0
           THEN /\ ReturnErr(UnexpectedToken)
                /\ UNCHANGED <<docvars, elemvars>>
           ELSE LET entry == parse_stack[Len(parse_stack)]
                    popped == SubSeq(parse_stack, 1, Len(parse_stack) - 1)
                IN  /\ parse_stack' = parse_stack
                    /\ root' = root
                    /\ IF ~Matches(entry, end.prefix, end.local)
                       THEN /\ ReturnErr(UnexpectedToken)
                            /\ UNCHANGED <<docvars, parse_state>>
                       ELSE /\ UNCHANGED <<result, info_set_data>>
                            /\ IF Len(parse_stack) = 0
                               THEN /\ ElementTreeDone(root.v)
                                    /\ UNCHANGED <<xml_version, xml_encoding,
                                                   xml_standalone>>
                               ELSE /\ parse_state' = "AfterUnwind"
                                    /\ UNCHANGED <<pc, docvars>>
    /\ UNCHANGED <<doc_info_item, attrvars>>

ElemElementEnd ==
    /\ pc = "parse_elem_tree"
    /\ \E it \in Upcoming :
        /\ IsToken(it, "ElementEnd")
        /\ next(it)
        /\ LET end == it.v.token IN
           IF ~InElement \/ end.end # "Close" \/ Len(parse_stack) = 0
           THEN /\ ReturnErr(UnexpectedToken)
                /\ UNCHANGED <<docvars, elemvars>>
           ELSE LET entry == parse_stack[Len(parse_stack)]
                    popped == SubSeq(parse_stack, 1, Len(parse_stack) - 1)
                IN  /\ parse_stack' = popped
                    /\ root' = root
                    /\ IF ~Matches(entry, end.prefix, end.local)
                       THEN /\ ReturnErr(UnexpectedToken)
                            /\ UNCHANGED <<docvars, parse_state>>
                       ELSE /\ UNCHANGED <<result, info_set_data>>
                            /\ IF Len(popped) = 0
                               THEN /\ ElementTreeDone(root.v)
                                    /\ UNCHANGED <<xml_version, xml_encoding,
                                                   xml_standalone>>
                               ELSE /\ parse_state' = "AfterUnwind"
                                    /\ UNCHANGED <<pc, docvars>>
    /\ UNCHANGED <<doc_info_item, attrvars>>

(* content the element loop has no arm for is passed over *)
ElemOther_passed_over ==
    /\ pc = "parse_elem_tree"
    /\ \E it \in Upcoming :
        /\ it.some /\ it.v.ok
        /\ ~(it.v.token.type \in {"ElementStart", "Comment",
                                   "ProcessingInstruction", "ElementEnd"})
        /\ next(it)
    /\ UNCHANGED <<pc, result, info_set_data>>
    /\ UNCHANGED <<doc_info_item, docvars, elemvars, attrvars>>

ElemOther ==
    /\ pc = "parse_elem_tree"
    /\ \E it \in Upcoming :
        /\ it.some /\ it.v.ok
        /\ ~(it.v.token.type \in {"ElementStart", "Comment",
                                   "ProcessingInstruction", "ElementEnd"})
        /\ next(it)
    /\ ReturnErr(UnexpectedToken)
    /\ UNCHANGED <<doc_info_item, docvars, elemvars, attrvars>>

(***************************************************************************)
(* parse_element_tree: one iteration of 'parse_attr_list, one action per   *)
(* match arm.  The arm of ElementEnd::Open / ElementEnd::Empty leaves the  *)
(* sub-loop and runs the rest of the ElementStart arm: the Element is      *)
(* inserted, hooked to its parent and, unless self-closing, pushed.        *)
(***************************************************************************)
AttrEOF ==
    /\ pc = "parse_attr_list"
    /\ \E it \in Upcoming :
        /\ ~it.some
        /\ next(it)
    /\ ReturnErr(UnexpectedEOF)
    /\ UNCHANGED <<doc_info_item, docvars, elemvars, attrvars>>

(* a lexical error inside an attribute list falling into the catch-all arm *)
AttrTokenError_as_UnexpectedToken ==
    /\ pc = "parse_attr_list"
    /\ \E it \in Upcoming :
        /\ it.some /\ ~it.v.ok
        /\ next(it)
        /\ ReturnErr(UnexpectedToken)
    /\ UNCHANGED <<doc_info_item, docvars, elemvars, attrvars>>

AttrTokenError ==
    /\ pc = "parse_attr_list"
    /\ \E it \in Upcoming :
        /\ it.some /\ ~it.v.ok
        /\ next(it)
        /\ ReturnErr(TokenError(it.v.error))
    /\ UNCHANGED <<doc_info_item, docvars, elemvars, attrvars>>

(* prefix and local name taken for each other *)
IsDefaultNamespaceAttribute_swapped(attr_prefix, attr_local) ==
    is_empty(attr_local) /\ as_str(attr_prefix) = "xmlns"

IsDefaultNamespaceAttribute(attr_prefix, attr_local) ==
    is_empty(attr_prefix) /\ as_str(attr_local) = "xmlns"

AttrAttribute ==
    /\ pc = "parse_attr_list"
    /\ \E it \in Upcoming :
        /\ IsToken(it, "Attribute")
        /\ next(it)
        /\ LET attr_prefix == it.v.token.prefix
               attr_local == it.v.token.local
               attr_value == it.v.token.value
           IN
           IF IsDefaultNamespaceAttribute(attr_prefix, attr_local)
           THEN IF default_namespace_attribute.some
                THEN /\ ReturnErr(DuplicateNSAttribute)
                     /\ UNCHANGED <<default_namespace_attribute, namespace_attributes,
                                    non_namespace_attrs>>
                ELSE /\ default_namespace_attribute' = Some(<<attr_local, attr_value>>)
                     /\ UNCHANGED <<pc, result, info_set_data, namespace_attributes,
                                    non_namespace_attrs>>
           ELSE IF as_str(attr_prefix) = "xmlns"
           THEN /\ namespace_attributes' =
                     Append(namespace_attributes, <<attr_local, attr_value>>)
                /\ UNCHANGED <<pc, result, info_set_data, default_namespace_attribute,
                               non_namespace_attrs>>
           ELSE /\ non_namespace_attrs' =
                     Append(non_namespace_attrs, <<attr_prefix, attr_local, attr_value>>)
                /\ UNCHANGED <<pc, result, info_set_data, default_namespace_attribute,
                               namespace_attributes>>
    /\ UNCHANGED <<doc_info_item, docvars, elemvars, element_prefix, element_local>>

AttrElementEnd ==
    /\ pc = "parse_attr_list"
    /\ \E it \in Upcoming :
        /\ IsToken(it, "ElementEnd") /\ it.v.token.end \in {"Open", "Empty"}
        /\ next(it)
        /\ LET self_close == (it.v.token.end = "Empty")
               top == last(parse_stack)
               parent == IF top.some THEN Some(top.v.element_info_item) ELSE None
               element_info_item == NewHandle(info_set_data, "ElementInfoItem")
               inserted ==
                   ElementInfoItem_new(
                       None,
                       Span_from_xml_strspan(element_local),
                       OptionSpan_from_xml_strspan(element_prefix),
                       <<>>, <<>>, <<>>, <<>>,
                       None,
                       IF parent.some THEN ParentElement(parent.v)
                                      ELSE ParentDoc(doc_info_item),
                       info_set_data)
           IN
           IF parent.some
           THEN /\ info_set_data' = inserted
                /\ append_to_element_as_child(parent.v, element_info_item)
                /\ UNCHANGED <<docvars, elemvars>>
           ELSE IF root.some
           THEN /\ ReturnErr(DuplicateRootElement)
                /\ UNCHANGED <<docvars, elemvars>>
           ELSE /\ info_set_data' = inserted
                /\ root' = Some(element_info_item)
                /\ result' = result
                /\ IF ~self_close
                   THEN /\ parse_stack' = Append(parse_stack,
                               [element_info_item |-> element_info_item,
                                prefix |-> element_prefix,
                                local_name |-> element_local])
                        /\ parse_state' = "AfterDescent"
                        /\ pc' = "parse_elem_tree"
                        /\ UNCHANGED docvars
                   ELSE /\ ElementTreeDone(element_info_item)
                        /\ UNCHANGED <<parse_stack, xml_version, xml_encoding,
                                       xml_standalone>>
    /\ UNCHANGED <<doc_info_item, attrvars>>

AttrOther ==
    /\ pc = "parse_attr_list"
    /\ \E it \in Upcoming :
        /\ it.some /\ it.v.ok
        /\ it.v.token.type # "Attribute"
        /\ ~(it.v.token.type = "ElementEnd" /\ it.v.token.end \in {"Open", "Empty"})
        /\ next(it)
    /\ ReturnErr(UnexpectedToken)
    /\ UNCHANGED <<doc_info_item, docvars, elemvars, attrvars>>

(***************************************************************************)
(* The specification                                                       *)
(***************************************************************************)
Next ==
    \/ parse_with_statistics
    \/ XmlDeclTokenError
    \/ XmlDeclPresent
    \/ XmlDeclAbsent
    \/ DocTokenError
    \/ DocDtd
    \/ DocElementStart
    \/ DocMisc
    \/ DocOther
    \/ DocEnd
    \/ ElemEOF
    \/ ElemTokenError
    \/ ElemElementStart
    \/ ElemComment
    \/ ElemPI
    \/ ElemElementEnd
    \/ ElemOther
    \/ AttrEOF
    \/ AttrTokenError
    \/ AttrAttribute
    \/ AttrElementEnd
    \/ AttrOther

Spec == Init /\ [][Next]_vars

(* parse is a sequential program and the tokenizer answers every call: a
   step that can be taken is taken *)
FairSpec == Init /\ [][Next]_vars /\ WF_vars(Next)

(***************************************************************************)
(* Reading the token stream on its own, without the parser: the shape of   *)
(* a single-root document.  Nest(s, n) is where the first n items of s     *)
(* leave a reader of well-formed documents:                                *)
(*   prolog   before the root element (a Declaration only as first item),  *)
(*   attrs    inside a start tag, `cur` its name, `dflt` whether an        *)
(*            unprefixed xmlns attribute was seen in it,                   *)
(*   content  inside the elements named in `open` (innermost last),        *)
(*   epilog   after the root element's subtree,                            *)
(*   mismatch at a closing tag whose name is not the innermost open one,   *)
(*   bad      anything else.                                               *)
(* Two names are the same when the tokens carry the same name spans.       *)
(***************************************************************************)
NameOf(t) == <<t.prefix, t.local>>

IsMisc(t) == t.type \in {"Comment", "ProcessingInstruction"}

IsDefaultNs(t) == t.prefix.text = "" /\ t.local.text = "xmlns"

NestStart == [phase |-> "prolog", open |-> <<>>, cur |-> <<>>, dflt |-> FALSE]

NestStep(st, n, item) ==
    LET t == item.token
        to(ph) == [st EXCEPT !.phase = ph]
    IN
    IF st.phase \in {"bad", "mismatch"} THEN st
    ELSE IF ~item.ok THEN to("bad")
    ELSE IF st.phase = "prolog" THEN
        IF t.type = "Declaration" /\ n = 1 THEN st
        ELSE IF IsMisc(t) THEN st
        ELSE IF t.type = "ElementStart"
             THEN [st EXCEPT !.phase = "attrs", !.cur = NameOf(t), !.dflt = FALSE]
        ELSE to("bad")
    ELSE IF st.phase = "attrs" THEN
        IF t.type = "Attribute" THEN
            IF IsDefaultNs(t) THEN (IF st.dflt THEN to("bad") ELSE [st EXCEPT !.dflt = TRUE])
            ELSE st
        ELSE IF t.type = "ElementEnd" /\ t.end = "Open"
             THEN [st EXCEPT !.phase = "content", !.open = Append(@, st.cur)]
        ELSE IF t.type = "ElementEnd" /\ t.end = "Empty"
             THEN (IF Len(st.open) = 0 THEN to("epilog") ELSE to("content"))
        ELSE to("bad")
    ELSE IF st.phase = "content" THEN
        IF t.type = "ElementStart"
        THEN [st EXCEPT !.phase = "attrs", !.cur = NameOf(t), !.dflt = FALSE]
        ELSE IF IsMisc(t) THEN st
        ELSE IF t.type = "ElementEnd" /\ t.end = "Close" THEN
            IF NameOf(t) = st.open[Len(st.open)]
            THEN [st EXCEPT !.phase = IF Len(st.open) = 1 THEN "epilog" ELSE "content",
                            !.open = SubSeq(@, 1, Len(@) - 1)]
            ELSE to("mismatch")
        ELSE to("bad")
    ELSE IF IsMisc(t) THEN st
    ELSE to("bad")

RECURSIVE Nest(_, _)
Nest(s, n) == IF n = 0 THEN NestStart ELSE NestStep(Nest(s, n - 1), n, s[n])

Shape == Nest(stream, Len(stream))

(* the stream so far can still become a well-formed single-root document *)
WellFormedSoFar == Shape.phase \in {"prolog", "attrs", "content", "epilog"}

(* the stream has ended and is a well-formed single-root document *)
WellFormedDocument == eof /\ Shape.phase = "epilog"

HasToken(ty) == \E k \in 1..Len(stream) : stream[k].ok /\ stream[k].token.type = ty

CountTokens(ty) == Cardinality({k \in 1..Len(stream) : stream[k].ok /\ stream[k].token.type = ty})

(* the root element is self-closing: no start tag of the stream is left open *)
NoOpenTag == \A k \in 1..Len(stream) :
    ~(stream[k].ok /\ stream[k].token.type = "ElementEnd" /\ stream[k].token.end = "Open")

Terminated == pc \in {"returned", "panicked"}

Table(k) == info_set_data.tables[k]

ElementHandle(i) == Handle("ElementInfoItem", i)

(* the first ElementStart token of the stream *)
FirstStart == stream[CHOOSE k \in 1..Len(stream) :
                  /\ stream[k].ok /\ stream[k].token.type = "ElementStart"
                  /\ \A j \in 1..(k - 1) :
                       ~(stream[j].ok /\ stream[j].token.type = "ElementStart")].token

(***************************************************************************)
(* C1: a stream of an optional leading Declaration, document-level         *)
(* Comment/PI tokens, one self-closing element (attributes with at most    *)
(* one unprefixed xmlns) and trailing Comment/PI tokens is parsed to Ok:   *)
(* the run never ends before the end of such a stream, and at its end the  *)
(* Document is Parsed, its document_element is that element, and the       *)
(* element has no children, no attributes and the Document as parent.      *)
(***************************************************************************)
SelfClosingRootSoFar == WellFormedSoFar /\ NoOpenTag

C1_SelfClosingRootParses ==
    (Terminated /\ SelfClosingRootSoFar) =>
        /\ eof
        /\ WellFormedDocument =>
            /\ pc = "returned" /\ result = Ok
            /\ info_set_data.doc_info_item = Some(doc_info_item)
            /\ LET doc == Get(info_set_data, doc_info_item)
                   e == Get(info_set_data, doc.document_element)
               IN  /\ doc.tag = "Parsed"
                   /\ doc.document_element = ElementHandle(1)
                   /\ Len(Table("ElementInfoItem")) = 1
                   /\ e.local_name = range(FirstStart.local)
                   /\ e.children = <<>>
                   /\ e.attributes = <<>>
                   /\ e.parent = ParentDoc(doc_info_item)

C1_Witness ==
    /\ pc = "returned" /\ result = Ok
    /\ SelfClosingRootSoFar /\ WellFormedDocument
    /\ HasToken("Declaration") /\ HasToken("Attribute")
    /\ stream[Len(stream)].token.type = "Comment"

(***************************************************************************)
(* C2: every well-formed single-root stream is parsed to Ok (the run does  *)
(* not end before the end of a stream that is well-formed so far), and     *)
(* each element's children list holds exactly the nodes created with that  *)
(* element as parent, in order.                                            *)
(***************************************************************************)
ChildKinds == {"ElementInfoItem", "CommentInfoItem", "PIInfoItem"}

(* the nodes of the store whose parent is the element e *)
NodesInside(e) ==
    { Handle(k, i) : k \in ChildKinds, i \in 1..MaxTokens } \cap
    { h \in { Handle(k, i) : k \in ChildKinds, i \in 1..MaxTokens } :
        /\ h.index <= Len(Table(h.kind))
        /\ Get(info_set_data, h).parent = ParentElement(e) }

ChildrenMirrorNesting ==
    \A i \in 1..Len(Table("ElementInfoItem")) :
        LET children == Table("ElementInfoItem")[i].children IN
        /\ { children[j] : j \in 1..Len(children) } = NodesInside(ElementHandle(i))
        /\ \A j1, j2 \in 1..Len(children) :
             (j1 < j2 /\ children[j1].kind = children[j2].kind)
                 => children[j1].index < children[j2].index

C2_WellFormedStreamParses ==
    (Terminated /\ WellFormedSoFar) =>
        /\ eof
        /\ pc = "returned"
        /\ result.kind # "Err" => ChildrenMirrorNesting
        /\ WellFormedDocument => result = Ok

(***************************************************************************)
(* C3: an ElementStart met at document level after the root element's      *)
(* subtree was parsed makes parse return DuplicateRootElement.             *)
(***************************************************************************)
SecondRootMet ==
    /\ Terminated
    /\ state = "AfterRootElement"
    /\ peeked.some /\ IsToken(peeked.v, "ElementStart")

C3_SecondRootIsDuplicateRootElement ==
    SecondRootMet => (pc = "returned" /\ result = Err(DuplicateRootElement))

(***************************************************************************)
(* C4: when the attribute sub-loop reads a second unprefixed xmlns         *)
(* attribute of one start tag, that step returns DuplicateNSAttribute: the *)
(* attribute is the last token taken from the stream, and no Element node  *)
(* exists yet for the tag (the store holds one element per earlier start   *)
(* tag).                                                                   *)
(***************************************************************************)
(* the unprefixed xmlns attributes among the tokens after the last ElementStart *)
DefaultNsInTag(s) ==
    LET from == CHOOSE k \in 1..Len(s) :
                  /\ s[k].ok /\ s[k].token.type = "ElementStart"
                  /\ \A j \in (k + 1)..Len(s) :
                       ~(s[j].ok /\ s[j].token.type = "ElementStart")
    IN  { j \in (from + 1)..Len(s) :
            s[j].ok /\ s[j].token.type = "Attribute" /\ IsDefaultNs(s[j].token) }

ReadsSecondDefaultNs ==
    /\ pc = "parse_attr_list"
    /\ Len(stream') = Len(stream) + 1
    /\ Cardinality(DefaultNsInTag(stream)) = 1
    /\ Cardinality(DefaultNsInTag(stream')) = 2

C4_SecondDefaultNsIsRejected ==
    [][ReadsSecondDefaultNs =>
          /\ pc' = "returned"
          /\ result' = Err(DuplicateNSAttribute)
          /\ Len(Table("ElementInfoItem")) = CountTokens("ElementStart") - 1]_vars

C4_Witness ==
    /\ pc = "returned" /\ result = Err(DuplicateNSAttribute)
    /\ Len(stream) >= 4
    /\ stream[Len(stream) - 1].token.type = "Attribute"
    /\ ~IsDefaultNs(stream[Len(stream) - 1].token)
    /\ Cardinality(DefaultNsInTag(stream)) = 2

(***************************************************************************)
(* C5: a closing tag whose name is not the name recorded in the top frame  *)
(* of the open-element stack makes parse return UnexpectedToken at that    *)
(* token, at every nesting depth: the run returns UnexpectedToken as soon  *)
(* as the stream shows such a closing tag, and with two or more elements   *)
(* open the parser is still in its element loop with one frame per open   *)
(* element, the innermost on top.                                          *)
(***************************************************************************)
FramesFollowOpenElements ==
    /\ pc = "parse_elem_tree"
    /\ Len(parse_stack) = Len(Shape.open)
    /\ \A i \in 1..Len(parse_stack) :
         <<parse_stack[i].prefix, parse_stack[i].local_name>> = Shape.open[i]

C5_MismatchedCloseAtEveryDepth ==
    /\ Shape.phase = "mismatch" => (pc = "returned" /\ result = Err(UnexpectedToken))
    /\ (Shape.phase = "content" /\ Len(Shape.open) >= 2) => FramesFollowOpenElements

(***************************************************************************)
(* C6: when the parser reads the end of the stream while no root element   *)
(* has been parsed at document level, or inside an attribute list, or in   *)
(* the element loop with a non-empty open-element stack, that step returns *)
(* UnexpectedEOF.                                                          *)
(***************************************************************************)
ReadsEnd ==
    \/ eof' /\ ~eof
    \/ pc = "doc_loop" /\ peeked = Some(None)

Incomplete ==
    \/ pc = "doc_loop" /\ state # "AfterRootElement"
    \/ pc = "parse_attr_list"
    \/ pc = "parse_elem_tree" /\ Len(parse_stack) > 0

C6_EndOfStreamInIncompleteConstruct ==
    [][(ReadsEnd /\ Incomplete) => (pc' = "returned" /\ result' = Err(UnexpectedEOF))]_vars

C6_Witness ==
    /\ pc = "returned" /\ result = Err(UnexpectedEOF)
    /\ eof
    /\ Shape.phase = "content"

(***************************************************************************)
(* C7: the Document is NotYetParsed while the parse runs; it becomes       *)
(* Parsed in one step only, the one that reads the end of the stream in    *)
(* document state AfterRootElement and returns Ok, with all nine fields;   *)
(* it is not written again; a step that returns an error finds it          *)
(* NotYetParsed.                                                           *)
(***************************************************************************)
DocSlot(repo) == repo.tables["DocInfoItem"]

DocParsedIn(repo) == Len(DocSlot(repo)) >= 1 /\ DocSlot(repo)[1].tag = "Parsed"

DocFields == {"version", "character_encoding_scheme", "standalone", "document_element",
              "children", "notations", "unparsed_entities", "base_uri",
              "all_declarations_processed"}

C7_DocumentTransitionsOnce ==
    /\ [](pc \in {"xml_decl", "doc_loop", "parse_elem_tree", "parse_attr_list", "panicked"}
            => DocSlot(info_set_data) = <<NotYetParsed>>)
    /\ [][(DocParsedIn(info_set_data') /\ ~DocParsedIn(info_set_data)) =>
            /\ pc = "doc_loop" /\ state = "AfterRootElement"
            /\ peeked' = Some(None) /\ eof'
            /\ DocSlot(info_set_data) = <<NotYetParsed>>
            /\ DOMAIN DocSlot(info_set_data')[1] = DocFields \cup {"tag"}
            /\ pc' = "returned" /\ result' = Ok]_vars
    /\ [][DocParsedIn(info_set_data) => info_set_data' = info_set_data]_vars
    /\ [][result'.kind = "Err" => DocSlot(info_set_data) = <<NotYetParsed>>]_vars

C7_Witness ==
    /\ pc = "returned" /\ result = Ok
    /\ DocParsedIn(info_set_data)
    /\ DOMAIN DocSlot(info_set_data)[1] = DocFields \cup {"tag"}

C9_ParseAlwaysReturns ==
    Terminated =>
        /\ pc = "returned"
        /\ \/ result = Ok
           \/ /\ result.kind = "Err"
              /\ result.error.variant \in {"TokenError", "UnexpectedToken", "UnexpectedEOF",
                                           "DuplicateNSAttribute", "DuplicateRootElement"}

(***************************************************************************)
(* C10: an error item of the tokenizer, wherever the parser meets it       *)
(* (peeked at document level, read in the element loop or in the attribute *)
(* sub-loop), ends the parse in that step with TokenError carrying that    *)
(* error; so a structural error returned for an earlier token is never     *)
(* replaced by a later lexical error.                                      *)
(***************************************************************************)
C10_TokenErrorSurfacesVerbatim ==
    \A k \in 1..Len(stream) :
        ~stream[k].ok =>
            /\ k = Len(stream)
            /\ pc = "returned"
            /\ result = Err(TokenError(stream[k].error))

(* a lexical error met inside the attribute sub-loop *)
C10_Witness ==
    /\ pc = "returned" /\ result = Err(TokenError("InvalidElement"))
    /\ Len(stream) >= 3
    /\ stream[Len(stream) - 1].token.type = "Attribute"

(***************************************************************************)
(* C11: on success the Parsed Document's version, character encoding       *)
(* scheme and standalone are those of the Declaration when it is the first *)
(* token of the stream ("1.0" and "1.1" mapped to Version1_0 and           *)
(* Version1_1, anything else to Other), and Version1_0, absent and absent  *)
(* when the stream has no leading Declaration; a Declaration anywhere      *)
(* after the first token is never taken as a declaration: the parse        *)
(* returns UnexpectedToken on reading it.                                  *)
(***************************************************************************)
LeadingDeclaration ==
    Len(stream) >= 1 /\ stream[1].ok /\ stream[1].token.type = "Declaration"

ExpectedVersion(text) ==
    CASE text = "1.0" -> [tag |-> "Version1_0"]
      [] text = "1.1" -> [tag |-> "Version1_1"]
      [] OTHER -> [tag |-> "Other", string |-> text]

ExpectedEncoding(text) ==
    CASE text = "UTF-8" -> [tag |-> "Utf8"]
      [] OTHER -> [tag |-> "Other", string |-> text]

C11_DeclarationFieldsAndDefaults ==
    /\ result = Ok =>
        LET d == Get(info_set_data, doc_info_item) IN
        IF LeadingDeclaration
        THEN LET t == stream[1].token IN
             /\ d.version = ExpectedVersion(t.version.text)
             /\ d.character_encoding_scheme =
                  IF t.encoding.some
                  THEN Some(ExpectedEncoding(t.encoding.v.text))
                  ELSE None
             /\ d.standalone = t.standalone
        ELSE /\ d.version = [tag |-> "Version1_0"]
             /\ d.character_encoding_scheme = None
             /\ d.standalone = None
    /\ \A k \in 2..Len(stream) :
        (stream[k].ok /\ stream[k].token.type = "Declaration") =>
            /\ k = Len(stream)
            /\ pc = "returned"
            /\ result = Err(UnexpectedToken)

(* a successful parse of a stream that starts with a version 1.1 declaration *)
C11_Witness ==
    /\ result = Ok
    /\ LeadingDeclaration
    /\ stream[1].token.version.text = "1.1"
    /\ Get(info_set_data, doc_info_item).standalone = Some(TRUE)

(***************************************************************************)
(* C12: every Span stored in a node (element local name and prefix,        *)
(* comment content, PI target and content) materializes against the        *)
(* InfoSet's retained input: Span::get succeeds and yields exactly         *)
(* input[start..end] for the byte range the tokenizer reported for that    *)
(* token field; Span::get gives SpanError only for a range that is not a   *)
(* valid slice of the input.  Stated for every node in the store at every  *)
(* point of the parse, so in particular for those of a successful parse.   *)
(***************************************************************************)
IsStart(item) == item.ok /\ item.token.type = "ElementStart"

(* the start tags read so far: element i of the store is built from the i-th *)
StartTokens == SelectSeq(stream, IsStart)

(* Span::get of `span` is Ok with the text and byte range of `v` *)
Materializes(span, v) ==
    /\ span.start = v.start
    /\ span.end = v.start + Len(v.text)
    /\ Span_get(span, InfoSet) = [ok |-> TRUE, str |-> v.text]

LastToken == stream[Len(stream)].token

ProbeRanges ==
    { [start |-> 0, end |-> 0], [start |-> 0, end |-> Len(input)],
      [start |-> Len(input), end |-> Len(input)],
      [start |-> Len(input), end |-> Len(input) + 1],
      [start |-> 2, end |-> 1], [start |-> Len(input) + 1, end |-> Len(input) + 1] }

C12_SpansMaterialize ==
    /\ Len(Table("ElementInfoItem")) <= Len(StartTokens)
    /\ \A i \in 1..Len(Table("ElementInfoItem")) :
        LET e == Table("ElementInfoItem")[i]
            t == StartTokens[i].token
        IN  /\ Materializes(e.local_name, t.local)
            /\ e.prefix.some => Materializes(e.prefix.v, t.prefix)
    /\ \A i \in 1..Len(Table("CommentInfoItem")) :
        /\ LastToken.type = "Comment"
        /\ Materializes(Table("CommentInfoItem")[i].content, LastToken.text)
    /\ \A i \in 1..Len(Table("PIInfoItem")) :
        LET n == Table("PIInfoItem")[i] IN
        /\ LastToken.type = "ProcessingInstruction"
        /\ Materializes(n.target, LastToken.target)
        /\ n.content.some =>
              LastToken.content.some /\ Materializes(n.content.v, LastToken.content.v)
    /\ \A r \in ProbeRanges :
        (Span_get(r, InfoSet) = [ok |-> FALSE, error |-> SpanError])
            <=> ~(r.start <= r.end /\ r.end <= Len(input))

(* a successful parse whose root element has both a prefix and a local name *)
C12_Witness ==
    /\ result = Ok
    /\ Len(Table("ElementInfoItem")) = 1
    /\ Table("ElementInfoItem")[1].prefix.some
    /\ Span_get(Table("ElementInfoItem")[1].prefix.v, InfoSet).str = "p"
    /\ Span_get(Table("ElementInfoItem")[1].local_name, InfoSet).str = "a"

(***************************************************************************)
(* The item a step's peek() or next() hands to the parser: the buffered    *)
(* one, else the one the tokenizer yields in this step, else None.         *)
(***************************************************************************)
Read ==
    IF peeked.some THEN peeked.v
    ELSE IF Len(stream') > Len(stream) THEN Some(stream'[Len(stream')])
    ELSE None

ReadsToken(types) == Read.some /\ Read.v.ok /\ Read.v.token.type \in types

(***************************************************************************)
(* C13: a DtdStart or EmptyDtd token is accepted only while the document   *)
(* state is AfterXmlDecl, and accepting it moves the state to AfterDTD and *)
(* lets the parse go on; met in AfterDTD or AfterRootElement it makes      *)
(* parse return UnexpectedToken.                                           *)
(***************************************************************************)
DtdMet == pc = "doc_loop" /\ ReadsToken({"DtdStart", "EmptyDtd"})

C13_DtdOnlyAfterXmlDecl ==
    [][DtdMet =>
        IF state = "AfterXmlDecl"
        THEN state' = "AfterDTD" /\ pc' = "doc_loop"
        ELSE pc' = "returned" /\ result' = Err(UnexpectedToken)]_vars

(***************************************************************************)
(* C14: at document level a Comment or ProcessingInstruction token is      *)
(* accepted in every state the loop can be in (AfterXmlDecl, AfterDTD,     *)
(* AfterRootElement): the step consumes exactly that one token, produces   *)
(* no error, leaves the document state and the recorded root element       *)
(* unchanged and inserts no node into the store.                           *)
(***************************************************************************)
MiscMet == pc = "doc_loop" /\ ReadsToken({"Comment", "ProcessingInstruction"})

C14_DocumentLevelMiscIsSkipped ==
    [][MiscMet =>
        /\ state \in {"AfterXmlDecl", "AfterDTD", "AfterRootElement"}
        /\ stream' = IF peeked.some THEN stream ELSE Append(stream, Read.v)
        /\ peeked' = None
        /\ pc' = "doc_loop"
        /\ result' = Pending
        /\ state' = state
        /\ root_element' = root_element
        /\ info_set_data' = info_set_data]_vars

(* one comment skipped before the root element and one PI after it *)
C14_Witness ==
    /\ pc = "doc_loop" /\ result = Pending
    /\ state = "AfterRootElement"
    /\ ~peeked.some
    /\ Len(stream) >= 4
    /\ stream[1].ok /\ stream[1].token.type = "Comment"
    /\ stream[Len(stream)].ok /\ LastToken.type = "ProcessingInstruction"
    /\ Len(Table("CommentInfoItem")) = 0 /\ Len(Table("PIInfoItem")) = 0

(***************************************************************************)
(* C15: a token outside the set accepted at the place where it is read is  *)
(* a structural error: at document level anything but DtdStart, EmptyDtd,  *)
(* ElementStart, Comment or PI; inside an element subtree anything but     *)
(* ElementStart, Comment, PI or ElementEnd::Close; inside an attribute     *)
(* list anything but Attribute, ElementEnd::Open or ElementEnd::Empty.     *)
(* The step that reads it returns UnexpectedToken.                         *)
(***************************************************************************)
ReadsEndOf(kinds) == ReadsToken({"ElementEnd"}) /\ Read.v.token.end \in kinds

Unaccepted ==
    /\ Read.some /\ Read.v.ok
    /\ \/ /\ pc = "doc_loop"
          /\ ~ReadsToken({"DtdStart", "EmptyDtd", "ElementStart",
                          "Comment", "ProcessingInstruction"})
       \/ /\ pc = "parse_elem_tree"
          /\ ~ReadsToken({"ElementStart", "Comment", "ProcessingInstruction"})
          /\ ~ReadsEndOf({"Close"})
       \/ /\ pc = "parse_attr_list"
          /\ ~ReadsToken({"Attribute"})
          /\ ~ReadsEndOf({"Open", "Empty"})

C15_UnacceptedTokenIsUnexpected ==
    [][Unaccepted => (pc' = "returned" /\ result' = Err(UnexpectedToken))]_vars

(* character data inside an open element *)
C15_Witness ==
    /\ pc = "returned" /\ result = Err(UnexpectedToken)
    /\ parse_state = "AfterDescent"
    /\ stream[Len(stream)].ok /\ LastToken.type = "Text"

(***************************************************************************)
(* C16: an Element node is created, in the step that ends its start tag's  *)
(* attribute list, with one parent: the element in the top frame of the    *)
(* open-element stack at that moment, or the Document when the stack is    *)
(* empty; no step changes the parent of an element that is in the store.   *)
(***************************************************************************)
ParentAtCreation ==
    IF Len(parse_stack) = 0
    THEN [variant |-> "Doc", item |-> doc_info_item]
    ELSE [variant |-> "Element",
          item |-> parse_stack[Len(parse_stack)].element_info_item]

C16_ElementParentSetAtCreation ==
    [][LET old == info_set_data.tables["ElementInfoItem"]
           new == info_set_data'.tables["ElementInfoItem"]
       IN  /\ \A i \in 1..Len(old) : i <= Len(new) => new[i].parent = old[i].parent
           /\ Len(new) > Len(old) =>
                /\ Len(new) = Len(old) + 1
                /\ pc = "parse_attr_list" /\ ReadsEndOf({"Open", "Empty"})
                /\ new[Len(new)].parent = ParentAtCreation]_vars

(* a root element under the Document and a second element under the root *)
C16_Witness ==
    /\ Len(Table("ElementInfoItem")) = 2
    /\ Table("ElementInfoItem")[1].parent = [variant |-> "Doc", item |-> doc_info_item]
    /\ Table("ElementInfoItem")[2].parent = [variant |-> "Element", item |-> ElementHandle(1)]

(***************************************************************************)
(* C17: a Comment or ProcessingInstruction token met inside the element    *)
(* sub-machine while an element is open creates a node whose parent is the *)
(* element in the top frame of the stack and appends it to that element's  *)
(* children, leaves the stack unchanged and sets the step state to         *)
(* AfterAppend; met with no element open it returns UnexpectedToken.       *)
(***************************************************************************)
MiscInElementMet ==
    pc = "parse_elem_tree" /\ ReadsToken({"Comment", "ProcessingInstruction"})

MiscKind == IF Read.v.token.type = "Comment" THEN "CommentInfoItem" ELSE "PIInfoItem"

C17_MiscAppendedToOpenElement ==
    [][MiscInElementMet =>
        IF InElement /\ Len(parse_stack) > 0
        THEN LET top == parse_stack[Len(parse_stack)].element_info_item
                 node == NewHandle(info_set_data, MiscKind)
                 table == info_set_data'.tables[MiscKind]
                 children == Get(info_set_data, top).children
             IN  /\ Len(table) = node.index
                 /\ table[node.index].parent = [variant |-> "Element", item |-> top]
                 /\ Get(info_set_data', top).children = Append(children, node)
                 /\ parse_stack' = parse_stack
                 /\ parse_state' = "AfterAppend"
                 /\ pc' = "parse_elem_tree"
        ELSE pc' = "returned" /\ result' = Err(UnexpectedToken)]_vars

(***************************************************************************)
(* C18: the document state only moves forward along Initial, AfterXmlDecl, *)
(* AfterDTD, AfterRootElement, Done; the element-tree sub-machine is       *)
(* entered at most once in a parse, and only from AfterXmlDecl or          *)
(* AfterDTD; when it returns Ok its open-element stack is empty and the    *)
(* tokens consumed end with the root element's closing token, so the next  *)
(* unconsumed token is the first one after it.                             *)
(***************************************************************************)
Rank(s) ==
    CASE s = Unset -> 0
      [] s = "Initial" -> 1
      [] s = "AfterXmlDecl" -> 2
      [] s = "AfterDTD" -> 3
      [] s = "AfterRootElement" -> 4
      [] s = "Done" -> 5

InSubMachine(p) == p \in {"parse_elem_tree", "parse_attr_list"}

EntersSubMachine == ~InSubMachine(pc) /\ InSubMachine(pc')

SubMachineReturnsOk == InSubMachine(pc) /\ pc' = "doc_loop"

C18_StateMovesForward ==
    [][/\ Rank(state') >= Rank(state)
       /\ EntersSubMachine =>
            /\ state \in {"AfterXmlDecl", "AfterDTD"}
            /\ parse_state = Unset
            /\ parse_state' # Unset
       /\ (parse_state # Unset) => (parse_state' # Unset)
       /\ SubMachineReturnsOk =>
            /\ state' = "AfterRootElement"
            /\ parse_stack' = <<>>
            /\ peeked' = None
            /\ Nest(stream', Len(stream')).phase = "epilog"
            /\ Nest(stream', Len(stream') - 1).phase \in {"attrs", "content"}]_vars

(* the sub-machine has returned the root element and the parse goes on *)
C18_Witness ==
    /\ pc = "doc_loop" /\ state = "AfterRootElement"
    /\ parse_state = "Done" /\ parse_stack = <<>>
    /\ ~peeked.some
    /\ stream[Len(stream)].ok /\ LastToken.type = "ElementEnd"

(***************************************************************************)
(* C19: the root element is appended as a child of its parent, the         *)
(* Document: after a successful parse the Document's children list holds   *)
(* the root element's handle, the same handle as document_element.         *)
(***************************************************************************)
DocChildElement(h) == [variant |-> "Element", item |-> h]

C19_RootIsChildOfDocument ==
    result = Ok =>
        LET d == Get(info_set_data, doc_info_item) IN
        \E i \in 1..Len(d.children) :
            d.children[i] = DocChildElement(d.document_element)

(***************************************************************************)
(* C20: every optional span field of a node the parser builds (Element     *)
(* prefix, namespace name and base URI, PI content and base URI) is absent *)
(* whenever the tokenizer's range for it has zero length, and present with *)
(* exactly that range otherwise; no optional span field holds a            *)
(* zero-length span.                                                       *)
(***************************************************************************)
OptionalOf(v) ==
    IF Len(v.text) = 0
    THEN None
    ELSE Some([start |-> v.start, end |-> v.start + Len(v.text)])

NotZeroLength(o) == o.some => o.v.start < o.v.end

Descended == parse_state \in {"AfterDescent", "AfterAppend", "AfterUnwind"}

C21_StepStateFollowsStack ==
    /\ pc = "parse_elem_tree" =>
        /\ parse_state \in {"Initial", "AfterDescent", "AfterAppend", "AfterUnwind"}
        /\ (parse_state = "Initial") <=> (Len(Table("ElementInfoItem")) = 0)
        /\ (parse_state = "Initial") <=> ~root.some
        /\ Descended => Len(parse_stack) > 0
    /\ pc = "parse_attr_list" => (Descended => Len(parse_stack) > 0)
    /\ parse_state = "Done" =>
        /\ ~InSubMachine(pc)
        /\ parse_stack = <<>>
        /\ root.some /\ root_element = root

(* an iteration starts with the root element open *)
C21_Witness ==
    /\ pc = "parse_elem_tree"
    /\ parse_state = "AfterDescent"
    /\ Len(parse_stack) = 1
    /\ Len(Table("ElementInfoItem")) = 1

(***************************************************************************)
(* C22: parse terminates on every finite token stream.  Every step of the  *)
(* document loop, the element loop and the attribute sub-loop takes at     *)
(* least one token from the tokenizer for good or ends the parse; the one  *)
(* exception is the document loop's ElementStart arm, which hands the      *)
(* buffered token to the element loop, whose first step takes it.  So the  *)
(* number of iterations is bounded by the number of tokens, and the parse  *)
(* ends.                                                                   *)
(***************************************************************************)
(* the number of items taken with next() *)
Consumed == Len(stream) - (IF peeked.some /\ peeked.v.some THEN 1 ELSE 0)

InLoop == pc \in {"doc_loop", "parse_elem_tree", "parse_attr_list"}

HandsOverStart ==
    /\ pc = "doc_loop" /\ pc' = "parse_elem_tree"
    /\ IsToken(peeked'.v, "ElementStart")

C22_ParseTerminates ==
    /\ [][InLoop =>
            \/ Consumed' > Consumed
            \/ pc' \in {"returned", "panicked"}
            \/ HandsOverStart]_vars
    /\ [][(pc = "parse_elem_tree" /\ parse_state = "Initial") =>
            (Consumed' > Consumed \/ pc' = "returned")]_vars
    /\ <>Terminated

(* a parse that went through all three loops, used up the stream and ended *)
C22_Witness ==
    /\ pc = "returned" /\ result = Ok
    /\ eof
    /\ Len(stream) >= 4
    /\ HasToken("Attribute") /\ HasToken("Comment")

(***************************************************************************)
(* C23: whenever parse_with_statistics returns Ok, the returned store has  *)
(* doc_info_item set to the Document handle reserved at the start, that    *)
(* Document is Parsed, and its document_element is the first element the   *)
(* parse created, the only one whose parent is the Document; root and      *)
(* root_element are set wherever they are unwrapped, so neither unwrap nor *)
(* a Document accessor on the returned result can fail.                    *)
(***************************************************************************)
ReservedDocument == Handle("DocInfoItem", 1)

ChildrenOfDocument ==
    { i \in 1..Len(Table("ElementInfoItem")) :
        Table("ElementInfoItem")[i].parent.variant = "Doc" }

C23_OkResultIsParsedDocument ==
    /\ result = Ok =>
        /\ doc_info_item = ReservedDocument
        /\ info_set_data.doc_info_item = Some(ReservedDocument)
        /\ Len(Table("DocInfoItem")) = 1
        /\ Table("DocInfoItem")[1].tag = "Parsed"
        /\ Table("DocInfoItem")[1].document_element = ElementHandle(1)
        /\ ChildrenOfDocument = {1}
        /\ Table("ElementInfoItem")[1].parent.item = ReservedDocument
    /\ state \in {"AfterRootElement", "Done"} => (root_element.some /\ root_element = root)
    /\ (pc = "doc_loop" /\ state = "AfterRootElement") =>
          root_element.v = ElementHandle(1)

(* a returned result whose Document can be read through its accessors *)
C23_Witness ==
    /\ pc = "returned" /\ result = Ok
    /\ info_set_data.doc_info_item = Some(ReservedDocument)
    /\ Get(info_set_data, ReservedDocument).tag = "Parsed"
    /\ Get(info_set_data, ReservedDocument).document_element = ElementHandle(1)

(***************************************************************************)
(* C24: at every step of parse_element_tree the open-element stack is a    *)
(* parent chain: the bottom frame's element is the root, whose parent is   *)
(* the Document, and each higher frame's element has the element of the    *)
(* frame directly below as its parent; every frame belongs to a            *)
(* non-self-closing start tag whose closing token has not been consumed    *)
(* yet; the depth of the stack is the number of non-self-closing start     *)
(* tags consumed minus the number of closing tokens consumed.              *)
(***************************************************************************)
CountEnds(kind) ==
    Cardinality({ k \in 1..Len(stream) :
        /\ stream[k].ok
        /\ stream[k].token.type = "ElementEnd"
        /\ stream[k].token.end = kind })

FrameParent(i) ==
    IF i = 1
    THEN [variant |-> "Doc", item |-> doc_info_item]
    ELSE [variant |-> "Element", item |-> parse_stack[i - 1].element_info_item]

C24_StackIsParentChain ==
    InSubMachine(pc) =>
        /\ Len(parse_stack) = CountEnds("Open") - CountEnds("Close")
        /\ Len(parse_stack) = Len(Shape.open)
        /\ Len(parse_stack) >= 1 => root = Some(parse_stack[1].element_info_item)
        /\ \A i \in 1..Len(parse_stack) :
            LET frame == parse_stack[i]
                e == Get(info_set_data, frame.element_info_item)
            IN  /\ e.parent = FrameParent(i)
                /\ <<frame.prefix, frame.local_name>> = Shape.open[i]
                /\ e.local_name.start = frame.local_name.start

(* the root element is open and a further start tag is being read *)
C24_Witness ==
    /\ pc = "parse_attr_list"
    /\ Len(parse_stack) = 1
    /\ CountEnds("Open") = 1 /\ CountEnds("Close") = 0
    /\ Get(info_set_data, parse_stack[1].element_info_item).parent.variant = "Doc"
====
